---- MODULE Spec2Model ----
(***************************************************************************)
(* Model of ctestwin_setup_automator.py: the .lg8 blank-log writer and     *)
(* inspector (create_blank_lg8, Trailer.pack, enc_cp932_nul, inspect_lg8)  *)
(* and the Ctestwin.ini merger (write_ini, write_ini_clicked,              *)
(* apply_ops_to_ini).                                                      *)
(*                                                                         *)
(* Text is a sequence of characters drawn from a small alphabet:           *)
(*   "A"  an ASCII letter            (cp932: one byte, 65)                 *)
(*   "K"  a kanji                    (cp932: two bytes, 139 199)           *)
(*   "U"  a character outside cp932  (encode(errors="strict") raises)      *)
(*   " "  a blank                    (cp932: one byte, 32)                 *)
(* Bytes are naturals 0..255, files are byte or line sequences.            *)
(***************************************************************************)
EXTENDS Integers, Sequences, FiniteSets, TLC

VARIABLES lg8Args, lg8File, lg8Before, lg8Status, insp,
          iniFile, iniBefore, iniArgs, iniStatus, iniRuns,
          tbl

lg8Vars == <<lg8Args, lg8File, lg8Before, lg8Status, insp>>
iniVars == <<iniFile, iniBefore, iniArgs, iniStatus, iniRuns>>
tblVars == <<tbl>>
vars == <<lg8Args, lg8File, lg8Before, lg8Status, insp,
          iniFile, iniBefore, iniArgs, iniStatus, iniRuns, tbl>>

----------------------------------------------------------------------------
(* Program constants *)
FREQNUM == 23
QSO_SIZE == 170
HEADER_EXTRA == 14
ROSTER_SLOTS == 30
SLOT_SIZE == 20
NUM_MODES == 25

(* Bounds of the model *)
MaxNameLen == 20
MaxExtraOps == 1
MaxRuns == 2
MaxCode == 30
MaxQso == 2
MaxTail == 3

----------------------------------------------------------------------------
(* Generic helpers *)
None == <<"None">>

Truthy(s) == s # None /\ s # <<>>

RECURSIVE Rep(_, _)
Rep(unit, n) == IF n <= 0 THEN <<>> ELSE unit \o Rep(unit, n - 1)

Take(s, n) == IF Len(s) <= n THEN s ELSE SubSeq(s, 1, n)

(* python slice b[lo:hi] of a 0-based byte string held as a 1-based Seq *)
Slice(b, lo, hi) ==
  LET h == IF hi > Len(b) THEN Len(b) ELSE hi
  IN IF lo >= h THEN <<>> ELSE SubSeq(b, lo + 1, h)

Ok(bytes) == [ok |-> TRUE, bytes |-> bytes, err |-> "none"]
Fail(e) == [ok |-> FALSE, bytes |-> <<>>, err |-> e]

----------------------------------------------------------------------------
(* cp932 codec: str.encode("cp932", errors="strict") *)
CharBytes(c) ==
  CASE c = "A" -> <<65>>
    [] c = " " -> <<32>>
    [] c = "K" -> <<139, 199>>
    [] OTHER   -> <<>>

(* "U" is a character outside cp932; "R" is U+FFFD, which decoding with
   errors="replace" yields and cp932 cannot encode either *)
Encodable(s) == \A i \in 1..Len(s) : s[i] # "U" /\ s[i] # "R"

RECURSIVE Cp932(_)
Cp932(s) == IF s = <<>> THEN <<>> ELSE CharBytes(Head(s)) \o Cp932(Tail(s))

(* the bytes literal written b"\\x00" in the source: backslash, x, 0, 0 *)
NUL_LITERAL == <<92, 120, 48, 48>>

(* enc_cp932_nul(s, size): (s or "").encode(...) + literal; too long raises
   ValueError; else pad with (size - len(b)) copies of the literal *)
enc_cp932_nul(s, size) ==
  LET str == IF s = None THEN <<>> ELSE s
  IN IF ~Encodable(str) THEN Fail("UnicodeEncodeError")
     ELSE LET b == Cp932(str) \o NUL_LITERAL
          IN IF Len(b) > size THEN Fail("ValueError")
             ELSE Ok(b \o Rep(NUL_LITERAL, size - Len(b)))

(* struct.pack("<H", v): little-endian unsigned 16 bit; out of range raises *)
InU16(v) == v >= 0 /\ v <= 65535

LE16(v) == <<v % 256, v \div 256>>

RECURSIVE PackH(_)
PackH(vs) == IF vs = <<>> THEN <<>> ELSE LE16(Head(vs)) \o PackH(Tail(vs))

(* struct.unpack("<H", two bytes) *)
UnLE16(b, i) == b[i + 1] + 256 * b[i + 2]

----------------------------------------------------------------------------
(* Trailer dataclass and Trailer.pack *)
Trailer(mode, is001, dupe, freq, kind, twice, ops, md) ==
  [ModeCurrent |-> mode, Is001Style |-> is001, DupePolicy |-> dupe,
   FreqCurrent |-> freq, ContestKind |-> kind, TwiceMinusOne |-> twice,
   PointPhone |-> [i \in 1..FREQNUM |-> 1],
   PointCW |-> [i \in 1..FREQNUM |-> 1],
   ClubOpName |-> ops,
   UserDefinedMultiPath |-> md]

(* (names + [""]*30)[:30] *)
PadRoster(names) == Take(names \o [i \in 1..ROSTER_SLOTS |-> <<>>], ROSTER_SLOTS)

(* the loop "for name in ...: out += enc_cp932_nul(name, 20)": the first
   failing slot raises, otherwise the slots are concatenated in order *)
RECURSIVE PackSlots(_)
PackSlots(names) ==
  IF names = <<>> THEN Ok(<<>>)
  ELSE LET h == enc_cp932_nul(Head(names), SLOT_SIZE)
       IN IF ~h.ok THEN h
          ELSE LET r == PackSlots(Tail(names))
               IN IF ~r.ok THEN r ELSE Ok(h.bytes \o r.bytes)

PackPath(md) ==
  IF ~Truthy(md) THEN Ok(<<>>)
  ELSE IF ~Encodable(md) THEN Fail("UnicodeEncodeError")
  ELSE Ok(Cp932(md) \o NUL_LITERAL)

ScalarsOf(t) == <<t.ModeCurrent, t.Is001Style, t.DupePolicy,
                  t.FreqCurrent, t.ContestKind, t.TwiceMinusOne>>

pack(t) ==
  LET sc == ScalarsOf(t)
  IN IF \E i \in 1..6 : ~InU16(sc[i]) THEN Fail("struct.error")
     ELSE LET slots == PackSlots(PadRoster(t.ClubOpName))
              path == PackPath(t.UserDefinedMultiPath)
          IN IF ~slots.ok THEN slots
             ELSE IF ~path.ok THEN path
             ELSE Ok(PackH(sc) \o PackH(t.PointPhone) \o PackH(t.PointCW)
                     \o slots.bytes \o path.bytes)

----------------------------------------------------------------------------
(* create_blank_lg8 *)
Unspecified == "unspecified"

HeaderExtendedDefault(arg) == IF arg = Unspecified THEN FALSE ELSE arg = "True"

(* the keyword default header_legacy_2bytes: bool = True *)
HeaderLegacy2Bytes(arg) == IF arg = Unspecified THEN TRUE ELSE arg = "True"

RosterUnpadded(club_ops) ==
  IF Truthy(club_ops) THEN club_ops
  ELSE [i \in 1..ROSTER_SLOTS |-> <<>>]

(* if club_ops: t.ClubOpName = (club_ops + [""]*30)[:30]; else the
   dataclass default [""]*30 *)
RosterOf(club_ops) ==
  IF Truthy(club_ops) THEN PadRoster(club_ops)
  ELSE [i \in 1..ROSTER_SLOTS |-> <<>>]

TrailerOf(a) ==
  Trailer(a.mode_code, a.is001, a.dupe_policy, a.band_code, a.contest_kind,
          a.twice_minus_one, RosterOf(a.club_ops), a.md_path)

(* data = count(0) [+ literal * HEADER_EXTRA] + t.pack() *)
HeaderOf(a) ==
  LE16(0) \o (IF ~HeaderLegacy2Bytes(a.header_legacy_2bytes)
              THEN Rep(NUL_LITERAL, HEADER_EXTRA) ELSE <<>>)

BlankData(a) ==
  LET tr == pack(TrailerOf(a))
  IN IF ~tr.ok THEN tr ELSE Ok(HeaderOf(a) \o tr.bytes)

NoFile == [exists |-> FALSE, data |-> <<>>]
FileOf(d) == [exists |-> TRUE, data |-> d]

(* the analysis shown by inspect_lg8; none while no analysis is on display *)
NoInsp == [ok |-> FALSE, err |-> "none", qso |-> 0, off |-> 0,
           mode |-> 0, freq |-> 0, kind |-> 0]

(* out_path.write_bytes runs only after t.pack() returned *)
create_blank_lg8 ==
  LET r == BlankData(lg8Args)
  IN /\ lg8Before' = lg8File
     /\ lg8File' = IF r.ok THEN FileOf(r.bytes) ELSE lg8File
     /\ lg8Status' = IF r.ok THEN "written" ELSE r.err
     /\ insp' = NoInsp
     /\ UNCHANGED lg8Args
     /\ UNCHANGED iniVars
     /\ UNCHANGED tblVars

----------------------------------------------------------------------------
(* App.inspect_lg8 *)
TrailerOffsetLegacyBias(b) ==
  LET qso == UnLE16(b, 0)
      off == 16 + qso * QSO_SIZE
  IN IF Len(b) >= (2 + qso * QSO_SIZE + 12)
     THEN 2 + qso * QSO_SIZE
     ELSE off

TrailerOffset(b) ==
  LET qso == UnLE16(b, 0)
      off == 16 + qso * QSO_SIZE
  IN IF Len(b) >= (2 + qso * QSO_SIZE + 12) /\ Len(b) < off + 12
     THEN 2 + qso * QSO_SIZE
     ELSE off

InspectWindow13(b) ==
  IF Len(Slice(b, 0, 2)) # 2
  THEN [NoInsp EXCEPT !.err = "struct.error"]
  ELSE LET qso == UnLE16(b, 0)
           off == TrailerOffset(b)
           w == Slice(b, off, off + 12)
       IN IF Len(Slice(b, off, off + 13)) # 13
          THEN [NoInsp EXCEPT !.err = "struct.error"]
          ELSE [ok |-> TRUE, err |-> "none", qso |-> qso, off |-> off,
                mode |-> UnLE16(w, 0), freq |-> UnLE16(w, 6),
                kind |-> UnLE16(w, 8)]

Inspect(b) ==
  IF Len(Slice(b, 0, 2)) # 2
  THEN [NoInsp EXCEPT !.err = "struct.error"]
  ELSE LET qso == UnLE16(b, 0)
           off == TrailerOffset(b)
           w == Slice(b, off, off + 12)
       IN IF Len(w) # 12
          THEN [NoInsp EXCEPT !.err = "struct.error"]
          ELSE [ok |-> TRUE, err |-> "none", qso |-> qso, off |-> off,
                mode |-> UnLE16(w, 0), freq |-> UnLE16(w, 6),
                kind |-> UnLE16(w, 8)]

inspect_lg8 ==
  /\ lg8File.exists
  /\ insp' = Inspect(lg8File.data)
  /\ UNCHANGED <<lg8Args, lg8File, lg8Before, lg8Status>>
  /\ UNCHANGED iniVars
  /\ UNCHANGED tblVars

----------------------------------------------------------------------------
(* Code tables *)
MODE_TABLE_SharedLabel ==
  <<"CW", "RTTY", "SSB", "FM", "AM", "ATV", "SSTV", "PSK", "GMSK", "MFSK",
    "QPSK", "FSK", "D-STAR", "C4FM", "JT65", "JT9", "ISCAT", "FT8", "JT4",
    "QRA64", "MSK144", "WSPR", "FT4", "FT4", "FST4">>

MODE_TABLE ==
  <<"CW", "RTTY", "SSB", "FM", "AM", "ATV", "SSTV", "PSK", "GMSK", "MFSK",
    "QPSK", "FSK", "D-STAR", "C4FM", "JT65", "JT9", "ISCAT", "FT8", "JT4",
    "QRA64", "MSK144", "WSPR", "JTMS", "FT4", "FST4">>

BAND_TABLE ==
  <<"1.9MHz", "3.5MHz", "7MHz", "10MHz", "14MHz", "18MHz", "21MHz", "24MHz",
    "28MHz", "50MHz", "144MHz", "430MHz", "1200MHz", "2400MHz", "5600MHz",
    "10GHz", "24GHz", "47GHz", "75GHz", "77GHz", "135GHz", "248GHz",
    "136kHz">>

----------------------------------------------------------------------------
(* Ctestwin.ini as text.  A file is a sequence of lines; a line is a section
   header "[name]", an option "name =text", a comment or a blank line.  The
   text after the delimiter is kept character by character, so that what
   the parser strips and what the writer adds are visible.  cp932 is
   injective on the characters it encodes, so equal lines are equal bytes. *)
SecLine(n) == [t |-> "sec", name |-> n, text |-> <<>>]
OptLine(k, txt) == [t |-> "opt", name |-> k, text |-> txt]
BlankLine == [t |-> "blank", name |-> "", text |-> <<>>]
CommentLine == [t |-> "comment", name |-> "", text |-> <<>>]

(* str.strip() *)
RECURSIVE LStrip(_)
LStrip(s) == IF s # <<>> /\ Head(s) = " " THEN LStrip(Tail(s)) ELSE s

RECURSIVE RStrip(_)
RStrip(s) ==
  IF s # <<>> /\ s[Len(s)] = " " THEN RStrip(SubSeq(s, 1, Len(s) - 1)) ELSE s

Strip(s) == RStrip(LStrip(s))

(* open(..., encoding="cp932", errors="replace"): an undecodable byte "X"
   is read as U+FFFD *)
Decode(txt) == [i \in 1..Len(txt) |-> IF txt[i] = "X" THEN "R" ELSE txt[i]]

(* the in-memory RawConfigParser: sections in order, options in order *)
HasSection(cfg, sec) == \E i \in 1..Len(cfg) : cfg[i].name = sec

AddSection(cfg, sec) == Append(cfg, [name |-> sec, items |-> <<>>])

EnsureSection(cfg, sec) == IF HasSection(cfg, sec) THEN cfg ELSE AddSection(cfg, sec)

HasOption(items, key) == \E j \in 1..Len(items) : items[j].key = key

SetItem(items, key, val) ==
  IF HasOption(items, key)
  THEN [j \in 1..Len(items) |->
          IF items[j].key = key THEN [key |-> key, value |-> val] ELSE items[j]]
  ELSE Append(items, [key |-> key, value |-> val])

Set(cfg, sec, key, val) ==
  [i \in 1..Len(cfg) |->
     IF cfg[i].name = sec
     THEN [name |-> sec, items |-> SetItem(cfg[i].items, key, val)]
     ELSE cfg[i]]

SetAllItemsReplacing(items, kvs) == kvs

(* a run of cfg.set(sec, key, value) calls over distinct keys, in the order
   of kvs: a key the section holds keeps its place and takes the new value,
   the others are appended in the order of the calls *)
ValueIn(kvs, key) == kvs[CHOOSE n \in 1..Len(kvs) : kvs[n].key = key].value

SetAllItems(items, kvs) ==
  [j \in 1..Len(items) |->
     IF HasOption(kvs, items[j].key)
     THEN [key |-> items[j].key, value |-> ValueIn(kvs, items[j].key)]
     ELSE items[j]]
  \o SelectSeq(kvs, LAMBDA kv : ~HasOption(items, kv.key))

SetAll(cfg, sec, kvs) ==
  [i \in 1..Len(cfg) |->
     IF cfg[i].name = sec
     THEN [name |-> sec, items |-> SetAllItems(cfg[i].items, kvs)]
     ELSE cfg[i]]

(* cfg.read_file(f) with the default strict=True: lines are read in order;
   a repeated section, an option before any section or an option repeated
   within its section raises at that line *)
Indexes(lines) == [i \in 1..Len(lines) |-> i]

SecIndexes(lines) == SelectSeq(Indexes(lines), LAMBDA i : lines[i].t = "sec")

(* the section header line an option line belongs to, 0 when there is none *)
OwnerOf(lines, i) ==
  LET before == {j \in 1..(i - 1) : lines[j].t = "sec"}
  IN IF before = {} THEN 0
     ELSE CHOOSE j \in before : \A k \in before : k <= j

ParseErrorAt(lines, i) ==
  LET ln == lines[i]
  IN CASE ln.t = "sec" ->
            IF \E j \in 1..(i - 1) : lines[j].t = "sec" /\ lines[j].name = ln.name
            THEN "DuplicateSectionError" ELSE "none"
       [] ln.t = "opt" ->
            IF OwnerOf(lines, i) = 0 THEN "MissingSectionHeaderError"
            ELSE IF \E j \in 1..(i - 1) :
                      /\ lines[j].t = "opt"
                      /\ lines[j].name = ln.name
                      /\ OwnerOf(lines, j) = OwnerOf(lines, i)
                 THEN "DuplicateOptionError" ELSE "none"
       [] OTHER -> "none"

(* the options of the section whose header is line p: the value is the
   decoded text after the delimiter, stripped *)
ItemsOf(lines, p) ==
  LET mine == SelectSeq(Indexes(lines),
                        LAMBDA i : lines[i].t = "opt" /\ OwnerOf(lines, i) = p)
  IN [n \in 1..Len(mine) |->
        [key |-> lines[mine[n]].name,
         value |-> Strip(Decode(lines[mine[n]].text))]]

Parse(lines) ==
  LET bad == {i \in 1..Len(lines) : ParseErrorAt(lines, i) # "none"}
      secs == SecIndexes(lines)
  IN IF bad # {}
     THEN [ok |-> FALSE, cfg |-> <<>>,
           err |-> ParseErrorAt(lines, CHOOSE i \in bad : \A j \in bad : i <= j)]
     ELSE [ok |-> TRUE, err |-> "none",
           cfg |-> [k \in 1..Len(secs) |->
                      [name |-> lines[secs[k]].name,
                       items |-> ItemsOf(lines, secs[k])]]]

(* if ini_path.exists(): cfg.read_file(f) *)
Load(file) ==
  IF file.exists THEN Parse(file.data)
  ELSE [ok |-> TRUE, cfg |-> <<>>, err |-> "none"]

(* cfg.write(f): "[name]", then "key = value" per option, then a blank line *)
SectionLines(sec) ==
  <<SecLine(sec.name)>>
  \o [j \in 1..Len(sec.items) |->
        OptLine(sec.items[j].key, <<" ">> \o sec.items[j].value)]
  \o <<BlankLine>>

RECURSIVE AllLines(_)
AllLines(cfg) ==
  IF cfg = <<>> THEN <<>> ELSE SectionLines(Head(cfg)) \o AllLines(Tail(cfg))

(* with ini_path.open("w", encoding="cp932", errors="strict"): the file is
   truncated on open; each line is encoded as it is written, so the first
   line that cannot be encoded raises and the lines before it stay in the
   file *)
Save(cfg) ==
  LET lines == AllLines(cfg)
      bad == {i \in 1..Len(lines) : ~Encodable(lines[i].text)}
  IN IF bad = {} THEN [ok |-> TRUE, lines |-> lines, err |-> "none"]
     ELSE LET first == CHOOSE i \in bad : \A j \in bad : i <= j
          IN [ok |-> FALSE, lines |-> SubSeq(lines, 1, first - 1),
              err |-> "UnicodeEncodeError"]

----------------------------------------------------------------------------
(* write_ini *)
OP_KEYS ==
  <<"OP1", "OP2", "OP3", "OP4", "OP5", "OP6", "OP7", "OP8", "OP9", "OP10",
    "OP11", "OP12", "OP13", "OP14", "OP15", "OP16", "OP17", "OP18", "OP19",
    "OP20", "OP21", "OP22", "OP23", "OP24", "OP25", "OP26", "OP27", "OP28",
    "OP29", "OP30">>

(* cw_wpm is an int or None; WpmNone stands for None *)
WpmNone == 0 - 1

DIGITS == <<"0", "1", "2", "3", "4", "5", "6", "7", "8", "9">>

IsDigit(s) == s # <<>> /\ \A i \in 1..Len(s) : \E d \in 1..10 : DIGITS[d] = s[i]

DigitVal(c) == (CHOOSE d \in 1..10 : DIGITS[d] = c) - 1

RECURSIVE IntOf(_)
IntOf(s) == IF s = <<>> THEN 0
            ELSE 10 * IntOf(SubSeq(s, 1, Len(s) - 1)) + DigitVal(s[Len(s)])

RECURSIVE StrOf(_)
StrOf(n) == IF n < 10 THEN <<DIGITS[n + 1]>>
            ELSE StrOf(n \div 10) \o <<DIGITS[(n % 10) + 1]>>

(* for band_label, num in urcnum_map.items(): if num is None: continue;
   cfg.set("UrCnum", band_label, num) -- the dict is in BAND_TABLE order *)
UrCnumSets(urcnum_map) ==
  SelectSeq([i \in 1..Len(BAND_TABLE) |->
               [key |-> BAND_TABLE[i], value |-> urcnum_map[BAND_TABLE[i]]]],
            LAMBDA kv : kv.value # None)

(* for i in range(1, 31):
     cfg.set("CLUB", f"OP{i}", club_ops[i-1] if i-1 < len(club_ops) else "") *)
ClubSets(club_ops) ==
  [i \in 1..ROSTER_SLOTS |->
     [key |-> OP_KEYS[i],
      value |-> IF i <= Len(club_ops) THEN club_ops[i] ELSE <<>>]]

MergeUrCnum(cfg, a) ==
  SetAll(EnsureSection(cfg, "UrCnum"), "UrCnum", UrCnumSets(a.urcnum_map))

MergeClub(cfg, club_ops) ==
  SetAll(EnsureSection(cfg, "CLUB"), "CLUB", ClubSets(club_ops))

MergePartial(cfg, a) ==
  IF Truthy(a.partial_path)
  THEN Set(EnsureSection(cfg, "Partial"), "Partial", "Filename", a.partial_path)
  ELSE cfg

WpmTruthy(w) == w # WpmNone /\ w # 0

MergeCW(cfg, a) ==
  IF Truthy(a.cw_cq) \/ WpmTruthy(a.cw_wpm)
  THEN LET c1 == EnsureSection(cfg, "CW")
           c2 == IF Truthy(a.cw_cq) THEN Set(c1, "CW", "CQ", a.cw_cq) ELSE c1
       IN IF WpmTruthy(a.cw_wpm) THEN Set(c2, "CW", "WPM_DEF", StrOf(a.cw_wpm))
          ELSE c2
  ELSE cfg

MergeStartup(cfg, a) ==
  IF Truthy(a.startup_band_label) \/ Truthy(a.startup_mode_label)
  THEN LET c1 == EnsureSection(cfg, "CurrentData")
           c2 == IF Truthy(a.startup_band_label)
                 THEN Set(c1, "CurrentData", "BandLabel", a.startup_band_label)
                 ELSE c1
           c3 == IF Truthy(a.startup_mode_label)
                 THEN Set(c2, "CurrentData", "ModeLabel", a.startup_mode_label)
                 ELSE c2
           c4 == EnsureSection(c3, "Startup")
           c5 == IF Truthy(a.startup_band_label)
                 THEN Set(c4, "Startup", "Band", a.startup_band_label)
                 ELSE c4
       IN IF Truthy(a.startup_mode_label)
          THEN Set(c5, "Startup", "Mode", a.startup_mode_label)
          ELSE c5
  ELSE cfg

MergeOpenLog(cfg, a) ==
  IF Truthy(a.open_log_fullpath)
  THEN Set(EnsureSection(cfg, "CurrentData"), "CurrentData", "CloseFname",
           a.open_log_fullpath)
  ELSE cfg

MergeUserMd(cfg, a) ==
  IF Truthy(a.user_md_path)
  THEN Set(EnsureSection(cfg, "Contest"), "Contest", "UserContestMD",
           a.user_md_path)
  ELSE cfg

(* the store write_ini holds when it reaches the final open("w") *)
Merged(cfg, a) ==
  MergeUserMd(MergeOpenLog(MergeStartup(MergeCW(MergePartial(
    MergeClub(MergeUrCnum(cfg, a), a.club_ops), a), a), a), a), a)

(* the file after write_ini / apply_ops_to_ini ran with args a: a failed
   load raises before the file is opened for writing *)
RunOn(file, a) ==
  LET ld == Load(file)
  IN IF ~ld.ok THEN [file |-> file, status |-> ld.err]
     ELSE LET cfg == IF a.op = "write_ini" THEN Merged(ld.cfg, a)
                     ELSE MergeClub(ld.cfg, a.club_ops)
              sv == Save(cfg)
          IN [file |-> FileOf(sv.lines),
              status |-> IF sv.ok THEN "written" ELSE sv.err]

----------------------------------------------------------------------------
(* Code table lookups.  A label is text: a table entry is one unit of it, a
   synthesized label is "#" followed by the decimal digits of the code *)
TableOf(name) == IF name = "mode" THEN MODE_TABLE ELSE BAND_TABLE

(* MODE_TABLE.get(code, f"#{code}") / BAND_TABLE.get(code, f"#{code}") *)
LabelOf(table, code) ==
  IF code + 1 \in 1..Len(table) THEN <<table[code + 1]>>
  ELSE <<"#">> \o StrOf(code)

(* MODE_TABLE_INV = {v: k for k, v in MODE_TABLE.items()}: a later code
   with the same label replaces an earlier one *)
InvHas(table, label) == \E c \in 1..Len(table) : <<table[c]>> = label

InvGet(table, label) ==
  LET cs == {c \in 1..Len(table) : <<table[c]>> = label}
  IN (CHOOSE c \in cs : \A d \in cs : d <= c) - 1

(* MODE_TABLE_INV[label] / BAND_TABLE_INV[label]: KeyError when absent *)
CodeOf(table, label) ==
  IF InvHas(table, label) THEN [ok |-> TRUE, code |-> InvGet(table, label)]
  ELSE [ok |-> FALSE, code |-> 0]

----------------------------------------------------------------------------
(* The handlers App.write_ini_clicked and App.apply_ops_to_ini *)
BandLabels == {BAND_TABLE[i] : i \in 1..Len(BAND_TABLE)}

NoArgs ==
  [op |-> "none", urcnum_map |-> [l \in BandLabels |-> None],
   club_ops |-> <<>>, partial_path |-> None, cw_cq |-> None,
   cw_wpm |-> WpmNone, open_log_fullpath |-> None, user_md_path |-> None,
   startup_band_label |-> None, startup_mode_label |-> None]

OrNoneUnstripped(raw) == IF raw = <<>> THEN None ELSE raw

(* entry.get().strip() or None *)
StripOrNone(raw) == IF Strip(raw) = <<>> THEN None ELSE Strip(raw)

NonEmpty(x) == x # <<>>

(* [s.strip() for s in text.splitlines() if s.strip()][:30] *)
ClubOpsOf(lines) ==
  Take(SelectSeq([i \in 1..Len(lines) |-> Strip(lines[i])], NonEmpty),
       ROSTER_SLOTS)

(* int(v.strip()) if v.strip().isdigit() else None *)
WpmOf(raw) == IF IsDigit(Strip(raw)) THEN IntOf(Strip(raw)) ELSE WpmNone

(* a combobox label as the text stored for it *)
LabelText(l) == <<l>>

ArgsOf(ui) ==
  [op |-> "write_ini",
   urcnum_map |-> [l \in BandLabels |-> StripOrNone(ui.urcnum_vars[l])],
   club_ops |-> ClubOpsOf(ui.txt_ops),
   partial_path |-> StripOrNone(ui.var_partial),
   cw_cq |-> StripOrNone(ui.var_cw_cq),
   cw_wpm |-> WpmOf(ui.var_cw_wpm),
   open_log_fullpath |-> StripOrNone(ui.var_open_log),
   user_md_path |-> StripOrNone(ui.var_user_md),
   startup_band_label |->
     IF ui.var_apply_startup THEN LabelText(ui.var_band_label) ELSE None,
   startup_mode_label |->
     IF ui.var_apply_startup THEN LabelText(ui.var_mode_label) ELSE None]

OpsArgsOf(lines) ==
  [NoArgs EXCEPT !.op = "apply_ops", !.club_ops = ClubOpsOf(lines)]

(* what the user has typed: every field blank, one field filled in, or all
   of them filled in *)
EmptyUi ==
  [urcnum_vars |-> [l \in BandLabels |-> <<>>], txt_ops |-> <<>>,
   var_partial |-> <<>>, var_cw_cq |-> <<>>, var_cw_wpm |-> <<>>,
   var_open_log |-> <<>>, var_user_md |-> <<>>, var_apply_startup |-> FALSE,
   var_band_label |-> "7MHz", var_mode_label |-> "SSB"]

UrcText(l, v) == [x \in BandLabels |-> IF x = l THEN v ELSE <<>>]

OpsText == {<<>>, << <<"A">> >>, << <<" ", "K">>, <<" ">>, <<"A", "A">> >>}

FullUi ==
  [urcnum_vars |-> UrcText("7MHz", <<"K">>), txt_ops |-> << <<"K">> >>,
   var_partial |-> <<"K">>, var_cw_cq |-> <<"K">>, var_cw_wpm |-> <<"3">>,
   var_open_log |-> <<"K">>, var_user_md |-> <<"K">>,
   var_apply_startup |-> TRUE,
   var_band_label |-> "14MHz", var_mode_label |-> "CW"]

UiInputs ==
  {EmptyUi, FullUi}
  \cup {[EmptyUi EXCEPT !.urcnum_vars = UrcText(l, v)] :
          l \in {"7MHz", "136kHz"}, v \in {<<"A">>, <<" ">>}}
  \cup {[EmptyUi EXCEPT !.txt_ops = o] : o \in OpsText}
  \cup {[EmptyUi EXCEPT !.var_partial = v] :
          v \in {<<"A">>, <<" ", "A", " ">>, <<"U">>}}
  \cup {[EmptyUi EXCEPT !.var_cw_cq = v] : v \in {<<"A", " ", "A">>}}
  \cup {[EmptyUi EXCEPT !.var_cw_wpm = v] :
          v \in {<<"2", "2">>, <<"0">>, <<"0", "2">>, <<"x">>}}
  \cup {[EmptyUi EXCEPT !.var_open_log = v] : v \in {<<"A">>}}
  \cup {[EmptyUi EXCEPT !.var_user_md = v] : v \in {<<"A">>, <<"U">>}}
  \cup {[EmptyUi EXCEPT !.var_apply_startup = TRUE]}

(* every exception is caught by the handler and shown in a dialog; the
   status records which one *)
write_ini_clicked ==
  \E ui \in UiInputs :
    LET a == ArgsOf(ui)
        r == RunOn(iniFile, a)
    IN /\ iniRuns < MaxRuns
       /\ iniBefore' = iniFile
       /\ iniFile' = r.file
       /\ iniStatus' = r.status
       /\ iniArgs' = a
       /\ iniRuns' = iniRuns + 1
       /\ UNCHANGED lg8Vars
       /\ UNCHANGED tblVars

apply_ops_to_ini ==
  \E lines \in OpsText :
    LET a == OpsArgsOf(lines)
        r == RunOn(iniFile, a)
    IN /\ iniRuns < MaxRuns
       /\ iniBefore' = iniFile
       /\ iniFile' = r.file
       /\ iniStatus' = r.status
       /\ iniArgs' = a
       /\ iniRuns' = iniRuns + 1
       /\ UNCHANGED lg8Vars
       /\ UNCHANGED tblVars

(* Ctestwin.ini as the logging application left it *)
RichIni ==
  FileOf(<<CommentLine,
           SecLine("Other"), OptLine("k", <<" ", "A">>), BlankLine,
           SecLine("UrCnum"), OptLine("7MHz", <<"A">>),
           OptLine("136kHz", <<" ", " ", "K", " ">>),
           SecLine("CLUB"), OptLine("OP1", <<" ", "A">>),
           OptLine("OP2", <<" ", "K">>), OptLine("op1", <<" ", "A", "A">>),
           SecLine("CW"), OptLine("CQ", <<" ", "A", " ", "A">>),
           OptLine("WPM_DEF", <<" ", "2", "2">>),
           SecLine("Partial"), OptLine("Filename", <<" ", "A">>),
           SecLine("CurrentData"), OptLine("CloseFname", <<" ", "A">>)>>)

BadByteIni ==
  FileOf(<<SecLine("Other"), OptLine("k", <<" ", "X">>), BlankLine,
           SecLine("CLUB"), OptLine("OP1", <<" ", "A">>), BlankLine>>)

DupIni ==
  FileOf(<<SecLine("CLUB"), OptLine("OP1", <<" ", "A">>),
           SecLine("CLUB"), OptLine("OP2", <<" ", "A">>)>>)

(* a section without options, a lower-case namesake of one the program
   writes, and a roster key past the 30th *)
SparseIni ==
  FileOf(<<SecLine("Empty"),
           SecLine("club"), OptLine("OP1", <<" ", "K">>),
           SecLine("CLUB"), OptLine("OP31", <<" ", "A">>)>>)

IniFiles == {NoFile, RichIni, BadByteIni, DupIni, SparseIni}

----------------------------------------------------------------------------
(* Inputs of the .lg8 writer *)
NameA(n) == Rep(<<"A">>, n)

OpsInputs ==
  {<<>>}
  \cup {<<NameA(n)>> : n \in 1..MaxNameLen}
  \cup {<<NameA(1), Rep(<<"K">>, k)>> : k \in {8, 9}}
  \cup {<< <<"U">> >>}
  \cup {[i \in 1..(ROSTER_SLOTS + e) |->
           IF i <= ROSTER_SLOTS THEN NameA(1) ELSE <<"U">>] : e \in 0..MaxExtraOps}

MdInputs == {None, <<>>, <<"A", "A">>, <<"K">>, <<"U">>}

HeaderInputs == {Unspecified, "True", "False"}

Args(m, b, k, ops, md, h) ==
  [mode_code |-> m, band_code |-> b, contest_kind |-> k, is001 |-> 0,
   dupe_policy |-> 0, twice_minus_one |-> 0, club_ops |-> ops,
   md_path |-> md, header_legacy_2bytes |-> h]

(* every mode, band and header variant with the other arguments at their
   defaults, and every roster and path with one mode and band *)
Lg8Inputs ==
  {Args(m, b, k, <<>>, None, h) :
     m \in 0..(NUM_MODES - 1), b \in 0..(FREQNUM - 1),
     k \in {1, 300, 65535}, h \in HeaderInputs}
  \cup {Args(3, 2, k, ops, md, h) :
     k \in {1, 65536}, ops \in OpsInputs, md \in MdInputs, h \in HeaderInputs}

(* a file already at the output path: none, or an older log *)
OldLg8 == FileOf(LE16(0) \o PackH(<<2, 0, 0, 6, 1, 0>>))

NoLookup == [name |-> "none", from |-> "none", pc |-> "idle",
             inCode |-> 0, inLabel |-> <<>>, outCode |-> 0, outLabel |-> <<>>]

TblIdle == tbl = NoLookup

IniIdle ==
  /\ iniFile = NoFile
  /\ iniBefore = NoFile
  /\ iniArgs = NoArgs
  /\ iniStatus = "idle"
  /\ iniRuns = 0

InitLg8 ==
  /\ lg8Args \in Lg8Inputs
  /\ lg8File \in {NoFile, OldLg8}
  /\ lg8Before = lg8File
  /\ lg8Status = "idle"
  /\ insp = NoInsp
  /\ IniIdle
  /\ TblIdle

NextLg8 == create_blank_lg8 \/ inspect_lg8

SpecLg8 == InitLg8 /\ [][NextLg8]_vars

Lg8Idle ==
  /\ lg8Args = Args(3, 2, 1, <<>>, None, Unspecified)
  /\ lg8File = NoFile
  /\ lg8Before = NoFile
  /\ lg8Status = "idle"
  /\ insp = NoInsp

InitIni ==
  /\ iniFile \in IniFiles
  /\ iniBefore = iniFile
  /\ iniArgs = NoArgs
  /\ iniStatus = "idle"
  /\ iniRuns = 0
  /\ Lg8Idle
  /\ TblIdle

NextIni == write_ini_clicked \/ apply_ops_to_ini

SpecIni == InitIni /\ [][NextIni]_vars

----------------------------------------------------------------------------
(* The two lookups on the code tables, as create_lg8 and inspect_lg8 make
   them: a code is looked up for its label, a label for its code, and the
   result of either may be looked up back *)
TableLabels == {<<MODE_TABLE[c]>> : c \in 1..Len(MODE_TABLE)}
               \cup {<<BAND_TABLE[c]>> : c \in 1..Len(BAND_TABLE)}

(* labels no table holds: wrong case, empty, a synthesized one *)
OtherLabels == {<<"cw">>, <<>>, <<"#", "0">>}

LookupOfCode(n, c) == [NoLookup EXCEPT !.name = n, !.from = "code",
                                       !.pc = "code", !.inCode = c]

LookupOfLabel(n, l) == [NoLookup EXCEPT !.name = n, !.from = "label",
                                        !.pc = "label", !.inLabel = l]

(* mode_label = MODE_TABLE.get(mode, f"#{mode}") *)
lookup_label ==
  /\ tbl.pc \in {"code", "C"}
  /\ LET code == IF tbl.pc = "code" THEN tbl.inCode ELSE tbl.outCode
     IN tbl' = [tbl EXCEPT !.outLabel = LabelOf(TableOf(tbl.name), code),
                           !.pc = IF tbl.pc = "code" THEN "L" ELSE "CL"]
  /\ UNCHANGED lg8Vars
  /\ UNCHANGED iniVars

(* mode_code = MODE_TABLE_INV[mode_label] *)
lookup_code ==
  /\ tbl.pc \in {"label", "L"}
  /\ LET label == IF tbl.pc = "label" THEN tbl.inLabel ELSE tbl.outLabel
         r == CodeOf(TableOf(tbl.name), label)
     IN tbl' = [tbl EXCEPT !.outCode = r.code,
                           !.pc = IF ~r.ok THEN "KeyError"
                                  ELSE IF tbl.pc = "label" THEN "C" ELSE "LC"]
  /\ UNCHANGED lg8Vars
  /\ UNCHANGED iniVars

InitTables ==
  /\ tbl \in {LookupOfCode(n, c) : n \in {"mode", "band"}, c \in 0..MaxCode}
        \cup {LookupOfLabel(n, l) : n \in {"mode", "band"},
                                    l \in TableLabels \cup OtherLabels}
  /\ Lg8Idle
  /\ IniIdle

NextTables == lookup_label \/ lookup_code

SpecTables == InitTables /\ [][NextTables]_vars

----------------------------------------------------------------------------
(* inspect_lg8 on any file the dialog can pick: the first two bytes give a
   record count, the rest is arbitrary and cut at any length *)
Buffer(q, n) ==
  [i \in 1..n |-> IF i = 1 THEN q % 256
                  ELSE IF i = 2 THEN q \div 256
                  ELSE (7 * i) % 256]

Buffers ==
  UNION {{Buffer(q, n) : n \in 0..(16 + q * QSO_SIZE + 12 + MaxTail)}
         : q \in 0..MaxQso}

InitInspect ==
  /\ lg8Args = Args(3, 2, 1, <<>>, None, Unspecified)
  /\ lg8File \in {FileOf(b) : b \in Buffers}
  /\ lg8Before = lg8File
  /\ lg8Status = "idle"
  /\ insp = NoInsp
  /\ IniIdle
  /\ TblIdle

NextInspect == inspect_lg8

SpecInspect == InitInspect /\ [][NextInspect]_vars

----------------------------------------------------------------------------
(* Views used by the properties *)
Inspected == insp.ok \/ insp.err # "none"

(* create_blank_lg8(path, mode, band, kind) with nothing else passed *)
DefaultCall(a) ==
  /\ a.is001 = 0 /\ a.dupe_policy = 0 /\ a.twice_minus_one = 0
  /\ a.club_ops = <<>> /\ a.md_path = None
  /\ a.header_legacy_2bytes = Unspecified

TrailerBytes == pack(TrailerOf(lg8Args)).bytes

Lg8Failures == {"ValueError", "UnicodeEncodeError", "struct.error"}

(* the options of a store as (section, key, value) triples *)
Entries(cfg) ==
  UNION {{<<cfg[i].name, cfg[i].items[j].key, cfg[i].items[j].value>> :
            j \in 1..Len(cfg[i].items)} : i \in 1..Len(cfg)}

StoreBefore == Load(iniBefore).cfg

StoreAfter == Load(iniFile).cfg

(* the keys write_ini and apply_ops_to_ini can set *)
KnownKeys ==
  {<<"UrCnum", l>> : l \in BandLabels}
  \cup {<<"CLUB", OP_KEYS[i]>> : i \in 1..ROSTER_SLOTS}
  \cup {<<"Partial", "Filename">>, <<"CW", "CQ">>, <<"CW", "WPM_DEF">>,
        <<"CurrentData", "BandLabel">>, <<"CurrentData", "ModeLabel">>,
        <<"Startup", "Band">>, <<"Startup", "Mode">>,
        <<"CurrentData", "CloseFname">>, <<"Contest", "UserContestMD">>}

(* the value a run with arguments a supplies for a key; None when it
   supplies none *)
Supplied(a, sec, key) ==
  CASE sec = "UrCnum" /\ key \in BandLabels -> a.urcnum_map[key]
    [] sec = "CLUB" /\ (\E i \in 1..ROSTER_SLOTS : OP_KEYS[i] = key) ->
         LET i == CHOOSE n \in 1..ROSTER_SLOTS : OP_KEYS[n] = key
         IN IF i <= Len(a.club_ops) THEN a.club_ops[i] ELSE None
    [] sec = "Partial" /\ key = "Filename" -> a.partial_path
    [] sec = "CW" /\ key = "CQ" -> a.cw_cq
    [] sec = "CW" /\ key = "WPM_DEF" ->
         IF a.cw_wpm = WpmNone THEN None ELSE StrOf(a.cw_wpm)
    [] sec = "CurrentData" /\ key = "BandLabel" -> a.startup_band_label
    [] sec = "CurrentData" /\ key = "ModeLabel" -> a.startup_mode_label
    [] sec = "Startup" /\ key = "Band" -> a.startup_band_label
    [] sec = "Startup" /\ key = "Mode" -> a.startup_mode_label
    [] sec = "CurrentData" /\ key = "CloseFname" -> a.open_log_fullpath
    [] sec = "Contest" /\ key = "UserContestMD" -> a.user_md_path
    [] OTHER -> None

SuppliedKeys(a) == {k \in KnownKeys : Truthy(Supplied(a, k[1], k[2]))}

----------------------------------------------------------------------------
(* C1: for every mode code 0..24, band code 0..22 and 16-bit contest kind,
   inspecting the file create_blank_lg8 wrote with every other argument at
   its default returns qsoCount 0 and the same mode, band and contest
   kind. *)
C1_InspectReturnsInputs ==
  (/\ lg8Status = "written"
   /\ DefaultCall(lg8Args)
   /\ lg8Args.mode_code \in 0..(NUM_MODES - 1)
   /\ lg8Args.band_code \in 0..(FREQNUM - 1)
   /\ InU16(lg8Args.contest_kind)
   /\ Inspected)
  => (/\ insp.ok
      /\ insp.qso = 0
      /\ insp.mode = lg8Args.mode_code
      /\ insp.freq = lg8Args.band_code
      /\ insp.kind = lg8Args.contest_kind)

(* C2: upsert, never delete on empty: a key that held a non-empty value
   before a merge run still holds that value after the run whenever the run
   supplied an empty or absent value for it. *)
C2_NeverDeleteOnEmpty ==
  iniStatus = "written" =>
    \A e \in Entries(StoreBefore) :
      (e[3] # <<>> /\ ~Truthy(Supplied(iniArgs, e[1], e[2])))
        => e \in Entries(StoreAfter)

(* C3: a merge run that supplies a non-empty value for exactly one key
   overwrites exactly that key: it holds the supplied value afterwards, and
   every other key of the loaded store keeps its value. *)
C3_OverwritesExactlyThatKey ==
  (iniStatus = "written" /\ Cardinality(SuppliedKeys(iniArgs)) = 1) =>
    /\ \A k \in SuppliedKeys(iniArgs) :
         <<k[1], k[2], Supplied(iniArgs, k[1], k[2])>> \in Entries(StoreAfter)
    /\ \A e \in Entries(StoreBefore) :
         <<e[1], e[2]>> \notin SuppliedKeys(iniArgs) => e \in Entries(StoreAfter)

(* C4: for a file create_blank_lg8 wrote with the legacy 2-byte header and
   zero records, inspect selects the legacy trailer offset 2, not 16. *)
C4_LegacyFileSelectsOffLegacy ==
  (/\ lg8Status = "written"
   /\ HeaderLegacy2Bytes(lg8Args.header_legacy_2bytes)
   /\ insp.ok)
  => insp.off = 2

(* C5 as stated: when the caller does not name the header variant the file
   is the zero count, 14 zero bytes and the trailer; the 2-byte header is
   written only when the caller asks for it. *)
C5_ExtendedByDefault ==
  lg8Status = "written" =>
    /\ lg8Args.header_legacy_2bytes = Unspecified =>
         lg8File.data = <<0, 0>> \o Rep(<<0>>, HEADER_EXTRA) \o TrailerBytes
    /\ lg8File.data = <<0, 0>> \o TrailerBytes =>
         lg8Args.header_legacy_2bytes = "True"

(* C5 amended: when the caller does not name the header variant the file
   is the 2-byte zero count followed directly by the trailer; bytes between
   the count and the trailer are written only when the caller passes
   header_legacy_2bytes=False. *)
C5_LegacyByDefault ==
  lg8Status = "written" =>
    /\ lg8Args.header_legacy_2bytes = Unspecified =>
         lg8File.data = <<0, 0>> \o TrailerBytes
    /\ lg8File.data # <<0, 0>> \o TrailerBytes =>
         lg8Args.header_legacy_2bytes = "False"

C5_Witness ==
  /\ lg8Status = "written"
  /\ lg8Args.header_legacy_2bytes = Unspecified
  /\ Len(lg8File.data) = 2 + Len(TrailerBytes)

(* C6: for a file create_blank_lg8 wrote with the extended header, inspect
   selects the trailer offset 16 and decodes the trailer's leading fields
   there. *)
C6_ExtendedFileDecodedAt16 ==
  (/\ lg8Status = "written"
   /\ ~HeaderLegacy2Bytes(lg8Args.header_legacy_2bytes)
   /\ Inspected)
  => (/\ insp.ok
      /\ insp.off = 16
      /\ insp.mode = lg8Args.mode_code
      /\ insp.freq = lg8Args.band_code
      /\ insp.kind = lg8Args.contest_kind)

(* C7: a trailer that encodes is 12 + 2*23*2 + 30*20 = 704 bytes long when
   no path is supplied and 704 + len(encoded path) + 1 bytes when one is. *)
C7_TrailerLength ==
  lg8Status = "written" =>
    Len(lg8File.data) - Len(HeaderOf(lg8Args)) =
      12 + 2 * FREQNUM * 2 + ROSTER_SLOTS * SLOT_SIZE
      + (IF Truthy(lg8Args.md_path) THEN Len(Cp932(lg8Args.md_path)) + 1 ELSE 0)

(* C8: packing a roster name succeeds whenever its encoded length plus the
   terminating zero byte is at most 20 bytes, and fails as too long
   whenever that length is 21 or more. *)
C8_SlotBoundary ==
  (/\ lg8Status # "idle"
   /\ Len(lg8Args.club_ops) = 1
   /\ Encodable(lg8Args.club_ops[1])
   /\ Encodable(IF lg8Args.md_path = None THEN <<>> ELSE lg8Args.md_path)
   /\ InU16(lg8Args.contest_kind))
  => LET n == Len(Cp932(lg8Args.club_ops[1])) + 1
     IN /\ n <= SLOT_SIZE => lg8Status = "written"
        /\ n > SLOT_SIZE => lg8Status = "ValueError"

(* C9: whenever create_blank_lg8 fails, or saving the configuration fails
   because a value cannot be encoded, the target file is left exactly as it
   was before the operation. *)
C9_FailureLeavesFileUntouched ==
  /\ lg8Status \in Lg8Failures => lg8File = lg8Before
  /\ iniStatus = "UnicodeEncodeError" => iniFile = iniBefore

(* C10: saving a store, loading the saved file and saving again gives
   output identical to the first save. *)
C10_PersistIdempotent ==
  iniStatus = "written" =>
    /\ Load(iniFile).ok
    /\ Save(StoreAfter).ok
    /\ Save(StoreAfter).lines = iniFile.data

C10_Witness ==
  /\ iniStatus = "written"
  /\ iniBefore = RichIni
  /\ iniArgs.partial_path = <<"A">>
  /\ <<"UrCnum", "136kHz", <<"K">>>> \in Entries(StoreAfter)

(* C11: for the 25 mode codes and the 23 band codes, no two codes share a
   label; looking up the code of a table label and then its label gives the
   label back, and looking up the label of a table code and then its code
   gives the code back; the label of a code outside the table is "#"
   followed by the code in decimal and the lookup does not fail; the code
   of a label the table does not hold fails (KeyError) *)
TableSize(n) == IF n = "mode" THEN 25 ELSE 23

Decimal2(c) == IF c < 10 THEN <<DIGITS[c + 1]>>
               ELSE <<DIGITS[(c \div 10) + 1], DIGITS[(c % 10) + 1]>>

Holds(n, l) == \E c \in 1..TableSize(n) : <<TableOf(n)[c]>> = l

C11_TablesInverse ==
  /\ Len(MODE_TABLE) = 25 /\ Len(BAND_TABLE) = 23
  /\ tbl.from = "label" /\ tbl.pc # "label" =>
       /\ Holds(tbl.name, tbl.inLabel) <=> tbl.pc \in {"C", "CL"}
       /\ ~Holds(tbl.name, tbl.inLabel) <=> tbl.pc = "KeyError"
  /\ tbl.pc = "CL" => tbl.outLabel = tbl.inLabel
  /\ tbl.from = "code" /\ tbl.pc # "code" /\ tbl.inCode < TableSize(tbl.name) =>
       /\ tbl.pc \in {"L", "LC"}
       /\ Holds(tbl.name, tbl.outLabel)
       /\ tbl.pc = "LC" => tbl.outCode = tbl.inCode
  /\ tbl.from = "code" /\ tbl.pc # "code" /\ tbl.inCode >= TableSize(tbl.name) =>
       /\ tbl.pc \in {"L", "KeyError"}
       /\ tbl.outLabel = <<"#">> \o Decimal2(tbl.inCode)

C11_Witness ==
  /\ tbl.name = "mode" /\ tbl.pc = "LC"
  /\ tbl.inCode = 22 /\ tbl.outLabel = <<"JTMS">> /\ tbl.outCode = 22

(* C12: for a buffer whose first two bytes give the record count q, the
   inspector decodes at 2 + q*170 exactly when the buffer holds 12 bytes
   there and does not hold 12 bytes at 16 + q*170, and at 16 + q*170 in
   every other case, so whenever it is long enough for both *)
QsoCount == lg8File.data[1] + 256 * lg8File.data[2]

OffLegacy == 2 + QsoCount * 170

OffExt == 16 + QsoCount * 170

LegacyOnly == Len(lg8File.data) >= OffLegacy + 12 /\ Len(lg8File.data) < OffExt + 12

C12_OffsetSelection ==
  Inspected /\ Len(lg8File.data) >= 2 =>
    /\ TrailerOffset(lg8File.data) = IF LegacyOnly THEN OffLegacy ELSE OffExt
    /\ insp.ok => insp.off = IF LegacyOnly THEN OffLegacy ELSE OffExt
    /\ Len(lg8File.data) >= OffExt + 12 => insp.ok /\ insp.off = OffExt
    /\ insp.ok /\ insp.off = OffLegacy => LegacyOnly

C12_Witness ==
  /\ insp.ok /\ QsoCount = 1 /\ insp.off = 172
  /\ Len(lg8File.data) = 16 + 170 + 11

(* C13: for a buffer whose first two bytes give the record count q, the
   inspector fails, showing no decoded field, exactly when fewer than 12
   bytes lie at the offset it selected, which is exactly when the buffer is
   shorter than 2 + q*170 + 12 bytes; every longer buffer is decoded *)
BytesAt(off) ==
  IF Len(lg8File.data) <= off THEN 0
  ELSE IF Len(lg8File.data) - off > 12 THEN 12
  ELSE Len(lg8File.data) - off

SelectedOff == IF LegacyOnly THEN OffLegacy ELSE OffExt

C13_TruncatedTrailer ==
  Inspected /\ Len(lg8File.data) >= 2 =>
    /\ ~insp.ok <=> BytesAt(SelectedOff) < 12
    /\ ~insp.ok <=> Len(lg8File.data) < 2 + QsoCount * 170 + 12
    /\ ~insp.ok => insp = [NoInsp EXCEPT !.err = "struct.error"]
    /\ insp.ok =>
         /\ insp.qso = QsoCount
         /\ insp.mode = lg8File.data[SelectedOff + 1]
                        + 256 * lg8File.data[SelectedOff + 2]
         /\ insp.freq = lg8File.data[SelectedOff + 7]
                        + 256 * lg8File.data[SelectedOff + 8]
         /\ insp.kind = lg8File.data[SelectedOff + 9]
                        + 256 * lg8File.data[SelectedOff + 10]

C13_Witness ==
  /\ Len(lg8File.data) = 2 + 170 + 11 /\ QsoCount = 1
  /\ ~insp.ok /\ insp.err = "struct.error"

(* C14: whatever the club_ops list, the trailer create_blank_lg8 builds has
   exactly 30 roster slots, slot i holding club_ops[i] for each i below
   min(len, 30) and the empty string otherwise; names past the 30th are
   dropped without error, the call behaving as with the first 30 alone; both
   scoring tables hold 1 for each of the 23 bands, in the trailer and in the
   file written *)
Created == lg8Status # "idle"

ExpectedRoster(ops) == [i \in 1..30 |-> IF i <= Len(ops) THEN ops[i] ELSE <<>>]

First30 == [lg8Args EXCEPT !.club_ops = Take(lg8Args.club_ops, 30)]

HeaderLen == Len(HeaderOf(lg8Args))

C14_RosterPopulation ==
  Created =>
    LET t == TrailerOf(lg8Args)
        ops == lg8Args.club_ops
    IN /\ Len(t.ClubOpName) = 30
       /\ \A i \in 1..30 :
            t.ClubOpName[i] = IF i <= Len(ops) THEN ops[i] ELSE <<>>
       /\ Len(t.PointPhone) = 23 /\ Len(t.PointCW) = 23
       /\ \A i \in 1..23 : t.PointPhone[i] = 1 /\ t.PointCW[i] = 1
       /\ Len(ops) > 30 =>
            lg8Status = IF BlankData(First30).ok THEN "written"
                        ELSE BlankData(First30).err
       /\ lg8Status = "written" =>
            LET slots == PackSlots(ExpectedRoster(ops)).bytes
                at == HeaderLen + 12
            IN /\ Slice(lg8File.data, at, at + 92)
                    = [i \in 1..92 |-> i % 2]
               /\ Slice(lg8File.data, at + 92, at + 92 + Len(slots)) = slots

C14_Witness ==
  /\ lg8Status = "written" /\ Len(lg8Args.club_ops) = 31
  /\ lg8Args.club_ops[31] = <<"U">>
  /\ TrailerOf(lg8Args).ClubOpName = [i \in 1..30 |-> <<"A">>]

(* C15: the store only grows: after a run of write_ini_clicked or
   apply_ops_to_ini that succeeded, every section and every key, compared
   case-sensitively, that the file held before the run is held after it,
   whatever the run's arguments *)
SectionsOf(cfg) == {cfg[i].name : i \in 1..Len(cfg)}

KeysOf(cfg) == {<<e[1], e[2]>> : e \in Entries(cfg)}

C15_StoreOnlyGrows ==
  iniStatus = "written" =>
    /\ SectionsOf(StoreBefore) \subseteq SectionsOf(StoreAfter)
    /\ KeysOf(StoreBefore) \subseteq KeysOf(StoreAfter)

C15_Witness ==
  /\ iniStatus = "written" /\ iniRuns = 2
  /\ {"Empty", "club", "CLUB"} \subseteq SectionsOf(StoreBefore)
  /\ {<<"club", "OP1">>, <<"CLUB", "OP31">>, <<"CLUB", "OP1">>}
       \subseteq KeysOf(StoreBefore)
  /\ SectionsOf(StoreAfter) # SectionsOf(StoreBefore)

====
